---------------------------- MODULE Spec2Model ----------------------------
(*
  The "hypermd" CodeMirror overlay mode (src/src/mode/hypermd.ts): startState,
  copyState, blankLine and token, driven by the host's line loop.

  A line is a sequence of one-character strings; a scan position is the
  0-based stream.pos.  The tokenizer state is the record of startState plus
  combineTokens; listSpaceStack is a reference into `heap`, because the code
  mutates that array in place (splice, push) and copyState must slice() it.
*)
EXTENDS Integers, Sequences, FiniteSets, TLC

VARIABLES
    state,      \* the overlay state threaded through token / blankLine
    heap,       \* array objects: reference -> sequence of integers
    saved,      \* the last clone made by copyState (or the placeholder)
    string,     \* stream.string: the line being scanned
    pos,        \* stream.pos
    line,       \* stream.lineOracle.line, -1 before the first line
    ahead,      \* stream.lookAhead(1) once the document has fixed it
    call        \* the last host call: what it was, where it started, what it returned

vars == <<state, heap, saved, string, pos, line, ahead, call>>

--------------------------------------------------------------------------
(* Bounds of the model *)

MaxLines == 4
MaxLen == 3

--------------------------------------------------------------------------
(* Character classes *)

Space == {" ", "\t"}

Digits == {"0", "1", "2", "3", "4", "5", "6", "7", "8", "9"}

WordChars ==
    Digits \cup {"_"} \cup
    {"a", "b", "c", "d", "e", "f", "g", "h", "i", "j", "k", "l", "m",
     "n", "o", "p", "q", "r", "s", "t", "u", "v", "w", "x", "y", "z"}

\* the backtick character (a TLA+ string literal cannot hold it)
BQ == "BACKTICK"

possibleTokenChars ==
    {BQ, "\\", "[", "]", "(", ")", "<", ">", "_", "*", "~", "$", "|", "^",
     "@", ":", "!", "#", "+", "\""}

--------------------------------------------------------------------------
(* String primitives of the host's StringStream *)

Min(S) == CHOOSE x \in S : \A y \in S : x <= y

\* String.prototype.charAt: "" when out of range
charAt(str, i) == IF i >= 0 /\ i < Len(str) THEN str[i + 1] ELSE ""

\* end of the maximal run of characters of S starting at i
FirstNotIn(str, i, S) ==
    IF i >= Len(str) THEN i
    ELSE Min({j \in i..Len(str) : j = Len(str) \/ str[j + 1] \notin S})

\* end of the maximal run of characters outside S starting at i
FirstIn(str, i, S) ==
    IF i >= Len(str) THEN i
    ELSE Min({j \in i..Len(str) : j = Len(str) \/ str[j + 1] \in S})

\* stream.match(literal) / stream.eat(ch): is `lit` at position i
matchStr(str, i, lit) ==
    /\ i + Len(lit) <= Len(str)
    /\ \A k \in 1..Len(lit) : str[i + k] = lit[k]

\* stream.next(): one character, nothing at end of line
next(str, i) == IF i < Len(str) THEN i + 1 ELSE i

tabSize == 4

\* countColumn(string, end, tabSize) over the leading whitespace
RECURSIVE countColumn(_, _, _, _)
countColumn(str, end, i, n) ==
    IF i >= end THEN n
    ELSE IF str[i + 1] = "\t"
         THEN countColumn(str, end, i + 1, n + (tabSize - (n % tabSize)))
         ELSE countColumn(str, end, i + 1, n + 1)

\* stream.indentation()
indentation(str) == countColumn(str, FirstNotIn(str, 0, Space), 0, 0)

--------------------------------------------------------------------------
(* Regular expressions of the mode; each returns the end of the match at
   position i, or -1 when there is none (tests return a boolean) *)

\* /^\s*(?:[*\-+]|[0-9]+([.)]))\s+/
listRE(str, i) ==
    LET b == FirstNotIn(str, i, Space)
        d == FirstNotIn(str, b, Digits)
        m == IF charAt(str, b) \in {"*", "-", "+"} THEN b + 1
             ELSE IF d > b /\ charAt(str, d) \in {".", ")"} THEN d + 1
             ELSE -1
        e == IF m = -1 THEN -1 ELSE FirstNotIn(str, m, Space)
    IN  IF m # -1 /\ e > m THEN e ELSE -1

\* one cell of a title separator: \s*:?\s*-+\s*:?\s*
tableTitleSepCell(str, i) ==
    LET a == FirstNotIn(str, i, Space)
        b == IF charAt(str, a) = ":" THEN a + 1 ELSE a
        c == FirstNotIn(str, b, Space)
        d == FirstNotIn(str, c, {"-"})
        e == FirstNotIn(str, d, Space)
        f == IF charAt(str, e) = ":" THEN e + 1 ELSE e
    IN  IF d > c THEN FirstNotIn(str, f, Space) ELSE -1

RECURSIVE tableTitleSepCells(_, _)
tableTitleSepCells(str, i) ==
    LET c == tableTitleSepCell(str, i)
    IN  IF c = -1 THEN FALSE
        ELSE IF c = Len(str) THEN TRUE
        ELSE IF str[c + 1] # "|" THEN FALSE
        ELSE \/ FirstNotIn(str, c + 1, Space) = Len(str)
             \/ tableTitleSepCells(str, c + 1)

\* /^\s*\|?(?:\s*\:?\s*\-+\s*\:?\s*\|)*\s*\:?\s*\-+\s*\:?\s*\|?\s*$/ .test(str)
tableTitleSepRE(str) ==
    LET a == FirstNotIn(str, 0, Space)
    IN  tableTitleSepCells(str, IF charAt(str, a) = "|" THEN a + 1 ELSE a)

\* stream.lookAhead(1) is undefined after the last line; RegExp.test coerces
\* it to the text "undefined"
undefinedText == <<"u", "n", "d", "e", "f", "i", "n", "e", "d">>

\* /^[^`\\\[\]\(\)<>_\*~\$\|\^@:!#\+"]+/
meanlessCharsRE(str, i) ==
    LET e == FirstIn(str, i, possibleTokenChars)
    IN  IF e > i THEN e ELSE -1

\* /^(?:[^\$\\]+|\\.)+/
RECURSIVE mathRun(_, _)
mathRun(str, i) ==
    IF i >= Len(str) THEN i
    ELSE IF str[i + 1] = "$" THEN i
    ELSE IF str[i + 1] = "\\"
         THEN (IF i + 1 < Len(str) THEN mathRun(str, i + 2) ELSE i)
    ELSE mathRun(str, i + 1)

mathContentRE(str, i) ==
    LET e == mathRun(str, i) IN IF e > i THEN e ELSE -1

\* /^```\s*$/
fenceEndRE(str, i) ==
    IF matchStr(str, i, <<BQ, BQ, BQ>>)
       /\ FirstNotIn(str, i + 3, Space) = Len(str)
    THEN Len(str) ELSE -1

\* /^(?:-{3,}|={3,})$/ .test(str)
stdHeaderRE(str) ==
    /\ Len(str) >= 3
    /\ \/ \A k \in 1..Len(str) : str[k] = "-"
       \/ \A k \in 1..Len(str) : str[k] = "="

\* /^\>\s*/
quoteRE(str, i) ==
    IF charAt(str, i) = ">" THEN FirstNotIn(str, i + 1, Space) ELSE -1

\* /^\s*\>\s*/
quoteMoreRE(str, i) == quoteRE(str, FirstNotIn(str, i, Space))

\* /^(#+)(?:\s|$)/
headerRE(str, i) ==
    LET h == FirstNotIn(str, i, {"#"})
    IN  IF h = i THEN -1
        ELSE IF h = Len(str) THEN h
        ELSE IF str[h + 1] \in Space THEN h + 1
        ELSE -1

\* /^(?:\:\s*)?-+(?:\s*\:)?/
tableDashRE(str, i) ==
    LET a == IF charAt(str, i) = ":" THEN FirstNotIn(str, i + 1, Space) ELSE i
        d == FirstNotIn(str, a, {"-"})
        e == FirstNotIn(str, d, Space)
    IN  IF d = a THEN -1
        ELSE IF charAt(str, e) = ":" THEN e + 1
        ELSE d

\* /^`[^`]*`?/
inlineCodeRE(str, i) ==
    LET e == FirstIn(str, i + 1, {BQ})
    IN  IF charAt(str, i) # BQ THEN -1
        ELSE IF charAt(str, e) = BQ THEN e + 1
        ELSE e

\* /^\${1,2}/
dollarRE(str, i) ==
    IF charAt(str, i) # "$" THEN -1
    ELSE IF charAt(str, i + 1) = "$" THEN i + 2
    ELSE i + 1

\* /[^\\]\$/ .test(str.substr(from))
closingDollarRE(str, from) ==
    \E k \in from..(Len(str) - 2) :
        charAt(str, k) # "\\" /\ charAt(str, k + 1) = "$"

\* /^\s*\|/ .test(str)
leadingPipeRE(str) == charAt(str, FirstNotIn(str, 0, Space)) = "|"

\* the `[^\]]+\]` core of the three link patterns: the index of the closing
\* bracket of a non-empty run without `]` starting at i, or -1
linkTextEnd(str, i) ==
    LET e == FirstIn(str, i, {"]"})
    IN  IF e > i /\ e < Len(str) THEN e ELSE -1

\* /^\[([^\]]+)\]/
linkOpenRE(str, i) ==
    IF charAt(str, i) = "[" THEN linkTextEnd(str, i + 1) ELSE -1

\* /^(?:[^\]]+)\]\:/
footnoteNameRE(str, i) ==
    LET e == linkTextEnd(str, i)
    IN  e # -1 /\ charAt(str, e + 1) = ":"

\* /^(?:[^\]]+)\](?:[^\[\(]|$)/
bareLinkRE(str, i) ==
    LET e == linkTextEnd(str, i)
    IN  e # -1 /\ charAt(str, e + 1) \notin {"[", "("}

\* /^"(?:[^"\\]|\\.)*"/
RECURSIVE quotedRun(_, _)
quotedRun(str, i) ==
    IF i >= Len(str) THEN i
    ELSE IF str[i + 1] = "\""  THEN i
    ELSE IF str[i + 1] = "\\"
         THEN (IF i + 1 < Len(str) THEN quotedRun(str, i + 2) ELSE i)
    ELSE quotedRun(str, i + 1)

quotedRE(str, i) ==
    LET e == quotedRun(str, i + 1)
    IN  IF charAt(str, i) = "\"" /\ charAt(str, e) = "\"" THEN e + 1 ELSE -1

\* /^\\(?=.)/
escapeRE(str, i) ==
    IF charAt(str, i) = "\\" /\ i + 1 < Len(str) THEN i + 1 ELSE -1

--------------------------------------------------------------------------
(* insideValues, nstyleValues and the values of the state's fields *)

nothing == "nothing"
math == "math"
listSpace == "listSpace"
codeFence == "codeFence"
tableTitleSep == "tableTitleSep"
null == "null"

DEL == 1
EM == 2
STRONG == 4
ESCAPE == 8
style_mask == 255
link_offset == 256
LINK == 1 * link_offset
LINK_URL == 2 * link_offset
BARELINK == 3 * link_offset
FOOTREF == 4 * link_offset
FOOTREF_BEGIN == 5 * link_offset
FOOTNOTE_NAME == 6 * link_offset

nstyleStandalone == <<DEL, EM, STRONG, ESCAPE>>

RECURSIVE bitAnd(_, _)
bitAnd(a, b) ==
    IF a = 0 \/ b = 0 THEN 0
    ELSE (a % 2) * (b % 2) + 2 * bitAnd(a \div 2, b \div 2)

bitOr(a, b) == a + b - bitAnd(a, b)

bitXor(a, b) == a + b - 2 * bitAnd(a, b)

\* nstyle & _link_mask
linkOf(nstyle) == ((nstyle \div link_offset) % 256) * link_offset

\* nstyle & _style_mask
styleOf(nstyle) == nstyle % (style_mask + 1)

\* state.table === null
NoTable == -1

\* state.extra: null, a number (index into listSpaceStack) or the math delimiter
extraNull == [k |-> "null", n |-> 0, d |-> <<>>]
extraNum(n) == [k |-> "num", n |-> n, d |-> <<>>]
extraStr(d) == [k |-> "str", n |-> 0, d |-> d]

\* ToNumber(state.extra) as `state.extra + 1` and `++state.extra` compute it
\* (null is 0; a delimiter never meets arithmetic: listSpace always holds a number)
extraToNumber(e) == IF e.k = "num" THEN e.n ELSE 0

\* a tag of the returned style string: a word, or a word ending in a number
Tag(w) == <<w>>
TagN(w, n) == <<w, n>>

\* the value returned by token / blankLine: null, or a style string (its words)
retNull == [isNull |-> TRUE, tags |-> {}]
retStyle(tags) == [isNull |-> FALSE, tags |-> tags]

\* HMDStyles[...]
HMDStyles(v) ==
    CASE v = ESCAPE -> {Tag("hmd-escape")}
      [] v = LINK -> {Tag("hmd-link")}
      [] v = LINK_URL -> {Tag("hmd-link-url")}
      [] v = BARELINK -> {Tag("hmd-barelink")}
      [] v = FOOTREF -> {Tag("hmd-barelink"), Tag("hmd-footref")}
      [] v = FOOTREF_BEGIN ->
            {Tag("hmd-barelink"), Tag("hmd-footref"), Tag("hmd-footref-lead")}
      [] v = FOOTNOTE_NAME -> {Tag("hmd-footnote"), Tag("line-HyperMD-footnote")}
      [] OTHER -> {}

codeblockTags ==
    {Tag("line-HyperMD-codeblock"), Tag("line-background-HyperMD-codeblock-bg")}

--------------------------------------------------------------------------
(* startState, copyState, blankLine as functions of the state's value
   (listSpaceStack is the array's content here) *)

startState ==
    [atBeginning |-> TRUE,
     quoteLevel |-> 0,
     nstyle |-> 0,
     table |-> NoTable,
     tableCol |-> 0,
     tableRow |-> 0,
     inside |-> nothing,
     listSpaceStack |-> <<>>,
     prevLineIsEmpty |-> FALSE,
     extra |-> extraNull,
     combineTokens |-> "undefined"]

\* a blankLine that also closes the block mode: inside and extra are reset
blankLineStateClosesBlock(s) ==
    [s EXCEPT !.atBeginning = TRUE,
              !.prevLineIsEmpty = TRUE,
              !.quoteLevel = 0,
              !.listSpaceStack = <<>>,
              !.table = NoTable,
              !.tableCol = 0,
              !.tableRow = 0,
              !.nstyle = 0,
              !.inside = nothing,
              !.extra = extraNull]

\* blankLine without `s.nstyle = 0`
blankLineStateKeepsStyle(s) ==
    [s EXCEPT !.atBeginning = TRUE,
              !.prevLineIsEmpty = TRUE,
              !.quoteLevel = 0,
              !.listSpaceStack = <<>>,
              !.table = NoTable,
              !.tableCol = 0,
              !.tableRow = 0]

\* the fields blankLine assigns
blankLineState(s) ==
    [s EXCEPT !.atBeginning = TRUE,
              !.prevLineIsEmpty = TRUE,
              !.quoteLevel = 0,
              !.listSpaceStack = <<>>,
              !.table = NoTable,
              !.tableCol = 0,
              !.tableRow = 0,
              !.nstyle = 0]

blankLineRet(s) ==
    IF s.inside = codeFence THEN retStyle(codeblockTags) ELSE retNull

\* the result of one token call: the state, the stream position, the returned
\* style, whether stream.lookAhead was read, and the return statement taken
Res(s, p, ret, looked, by) ==
    [st |-> s, pos |-> p, ret |-> ret, looked |-> looked, by |-> by]

--------------------------------------------------------------------------
(* token: the block sub-scanners that return before the line-start code *)

\* case insideValues.math
tokenMath(s, str, start) ==
    LET d == s.extra.d
        m == mathContentRE(str, start)
    IN  IF (start = 0 \/ charAt(str, start - 1) # "\\") /\ matchStr(str, start, d)
        THEN Res([s EXCEPT !.inside = nothing], start + Len(d),
                 retStyle({Tag("formatting"), Tag("formatting-math"),
                           Tag("formatting-math-end"), Tag("math"),
                           TagN("math-", Len(d))}),
                 FALSE, "math-end")
        ELSE Res(s, IF m = -1 THEN next(str, start) ELSE m,
                 retStyle({Tag("math"), TagN("math-", Len(d))}), FALSE, "math")

\* a code fence whose closing line also drops the inline styles and links
tokenCodeFenceResetsStyle(s, str, start) ==
    IF start = 0 /\ fenceEndRE(str, start) # -1
    THEN Res([s EXCEPT !.combineTokens = "true", !.inside = nothing, !.nstyle = 0],
             Len(str),
             retStyle(codeblockTags \cup {Tag("line-HyperMD-codeblock-end")}),
             FALSE, "fence-end")
    ELSE Res([s EXCEPT !.combineTokens = "true"], Len(str),
             retStyle(codeblockTags), FALSE, "fence")

\* a code fence closed by any line that starts with three backticks: /^```/
tokenCodeFenceAnyText(s, str, start) ==
    IF start = 0 /\ matchStr(str, 0, <<BQ, BQ, BQ>>)
    THEN Res([s EXCEPT !.combineTokens = "true", !.inside = nothing], Len(str),
             retStyle(codeblockTags \cup {Tag("line-HyperMD-codeblock-end")}),
             FALSE, "fence-end")
    ELSE Res([s EXCEPT !.combineTokens = "true"], Len(str),
             retStyle(codeblockTags), FALSE, "fence")

\* a code fence whose closing line does not leave the fence
tokenCodeFenceStaysIn(s, str, start) ==
    IF start = 0 /\ fenceEndRE(str, start) # -1
    THEN Res([s EXCEPT !.combineTokens = "true"], Len(str),
             retStyle(codeblockTags \cup {Tag("line-HyperMD-codeblock-end")}),
             FALSE, "fence-end")
    ELSE Res([s EXCEPT !.combineTokens = "true"], Len(str),
             retStyle(codeblockTags), FALSE, "fence")

\* case insideValues.codeFence
tokenCodeFence(s, str, start) ==
    LET s1 == [s EXCEPT !.combineTokens = "true"]
    IN  IF start = 0 /\ fenceEndRE(str, start) # -1
        THEN Res([s1 EXCEPT !.inside = nothing], Len(str),
                 retStyle(codeblockTags \cup {Tag("line-HyperMD-codeblock-end")}),
                 FALSE, "fence-end")
        ELSE Res(s1, Len(str), retStyle(codeblockTags), FALSE, "fence")

--------------------------------------------------------------------------
(* token: `if (start === 0)`, the line-start code *)

\* row counters that leave tableCol as it is at the start of a row
tableRowStartKeepsCol(s, str) ==
    IF s.table # NoTable
    THEN [s EXCEPT !.tableRow = s.tableRow + 1,
                   !.inside = IF s.tableRow + 1 = 1 /\ tableTitleSepRE(str)
                              THEN tableTitleSep ELSE null]
    ELSE s

\* a table is open: the row counters and the title separator line
tableRowStart(s, str) ==
    IF s.table # NoTable
    THEN [s EXCEPT !.tableCol = 0,
                   !.tableRow = s.tableRow + 1,
                   !.inside = IF s.tableRow + 1 = 1 /\ tableTitleSepRE(str)
                              THEN tableTitleSep ELSE null]
    ELSE s

\* a quote marker that stops after the first `>`: no while loop
quoteRunFirstOnly(str, p, level) == <<p, level>>

\* while (stream.match(/^\s*\>\s*/)) quoteLevel++ : <<end position, level>>
RECURSIVE quoteRun(_, _, _)
quoteRun(str, p, level) ==
    LET e == quoteMoreRE(str, p)
    IN  IF e = -1 THEN <<p, level>> ELSE quoteRun(str, e, level + 1)

\* the for loop over state.listSpaceStack: <<stack, indentation>>
RECURSIVE rebuildLoop(_, _, _)
rebuildLoop(stack, i, indent) ==
    IF i >= Len(stack) THEN <<stack, indent>>
    ELSE IF indent > 0 THEN rebuildLoop(stack, i + 1, indent - stack[i + 1])
    ELSE <<SubSeq(stack, 1, i), indent>>

\* a rebuild that may leave the stack empty: no `push(0)`
rebuildMayEmpty(stack, indent) ==
    LET r == rebuildLoop(stack, IF Len(stack) > 0 /\ stack[1] = 0 THEN 1 ELSE 0, indent)
    IN  IF r[2] > 0 THEN Append(r[1], r[2]) ELSE r[1]

\* a rebuild that pushes no new nested level
rebuildWithoutNewLevel(stack, indent) ==
    LET r == rebuildLoop(stack, IF Len(stack) > 0 /\ stack[1] = 0 THEN 1 ELSE 0, indent)
    IN  IF Len(r[1]) = 0 THEN <<0>> ELSE r[1]

\* "rebuild state.listSpaceStack" for a line of the given indentation
rebuildListSpaceStack(stack, indent) ==
    LET zero_leading == Len(stack) > 0 /\ stack[1] = 0
        r == rebuildLoop(stack, IF zero_leading THEN 1 ELSE 0, indent)
        pushed == IF r[2] > 0 THEN Append(r[1], r[2]) ELSE r[1]
    IN  IF Len(pushed) = 0 THEN <<0>> ELSE pushed

\* the result of the line-start code.  done: the call returns here;
\* otherwise the call goes on with the state st
lineDone(st, p, tags, by) ==
    [done |-> TRUE, st |-> st, pos |-> p, ret |-> retStyle(tags), by |-> by]

lineGoesOn(st, by) ==
    [done |-> FALSE, st |-> st, pos |-> 0, ret |-> retNull, by |-> by]

\* the quote marker, qr = <<end of the `>` run, number of `>`>>
quoteMarker(s, qr) ==
    lineDone([s EXCEPT !.quoteLevel = qr[2]], qr[1],
             {Tag("formatting"), Tag("formatting-quote"),
              TagN("formatting-quote-", qr[2]), Tag("quote"),
              TagN("quote-", qr[2]), Tag("line-HyperMD-quote"),
              TagN("line-HyperMD-quote-", qr[2])},
             "quote")

\* blockquote, header and list, after `state.prevLineIsEmpty = false`
lineStartBlock(s, str, ind) ==
    IF quoteRE(str, 0) # -1
    THEN quoteMarker(s, quoteRun(str, quoteRE(str, 0), 1))
    ELSE IF s.quoteLevel # 0
    THEN lineDone([s EXCEPT !.combineTokens = "true"], next(str, 0),
                  {Tag("line-HyperMD-quote"),
                   TagN("line-HyperMD-quote-", s.quoteLevel)},
                  "quote-cont")
    ELSE IF headerRE(str, 0) # -1
    THEN lineDone([s EXCEPT !.combineTokens = "true"], headerRE(str, 0),
                  {Tag("line-HyperMD-header"),
                   TagN("line-HyperMD-header-", FirstNotIn(str, 0, {"#"}))},
                  "header")
    ELSE IF Len(s.listSpaceStack) # 0 \/ listRE(str, 0) # -1
    THEN lineGoesOn([s EXCEPT
                       !.listSpaceStack = rebuildListSpaceStack(s.listSpaceStack, ind),
                       !.inside = listSpace,
                       !.extra = extraNum(0)],
                    "list")
    ELSE lineGoesOn(s, "content")

\* code fence, indented code block and StdHeader underline; ind is
\* stream.indentation()
lineStartCode(s, str, ind) ==
    IF matchStr(str, 0, <<BQ, BQ, BQ>>)
    THEN lineDone([s EXCEPT !.combineTokens = "true", !.inside = codeFence], 3,
                  codeblockTags \cup {Tag("line-HyperMD-codeblock-begin")},
                  "fence-begin")
    ELSE IF Len(s.listSpaceStack) = 0 /\ ind >= 4
    THEN lineDone(s, Len(str),
                  {Tag("line-HyperMD-codeblock"),
                   Tag("line-background-HyperMD-codeblock-indented-bg")},
                  "indented")
    ELSE IF stdHeaderRE(str) /\ ~s.prevLineIsEmpty
    THEN lineDone(s, Len(str),
                  {Tag("formatting"), Tag("line-HyperMD-header-line"),
                   TagN("line-HyperMD-header-line-", IF str[1] = "=" THEN 1 ELSE 2)},
                  "stdheader")
    ELSE lineStartBlock([s EXCEPT !.prevLineIsEmpty = FALSE], str, ind)

\* a line start that closes the link left open by the line before
lineStartClosesLink(s, str) ==
    lineStartCode(tableRowStart([s EXCEPT !.atBeginning = TRUE,
                                          !.nstyle = styleOf(s.nstyle)], str),
                  str, indentation(str))

\* `if (start === 0) { ... }`
lineStart(s, str) ==
    lineStartCode(tableRowStart([s EXCEPT !.atBeginning = TRUE], str), str,
                  indentation(str))

--------------------------------------------------------------------------
(* token: the list-indent algorithm, `if (state.inside === insideValues.listSpace)` *)

\* an indent loop that stops at a character that is no space and no tab
\* without marking the indent as corrupted
RECURSIVE eatIndentUnmarked(_, _, _)
eatIndentUnmarked(str, p, indent_to_eat) ==
    IF indent_to_eat > 0
    THEN IF charAt(str, p) = "\t" THEN eatIndentUnmarked(str, p + 1, indent_to_eat - 4)
         ELSE IF charAt(str, p) = " " THEN eatIndentUnmarked(str, p + 1, indent_to_eat - 1)
         ELSE <<next(str, p), FALSE>>
    ELSE <<p, FALSE>>

\* while (indent_to_eat > 0): <<position, corrupted>>
RECURSIVE eatIndent(_, _, _)
eatIndent(str, p, indent_to_eat) ==
    IF indent_to_eat > 0
    THEN IF charAt(str, p) = "\t" THEN eatIndent(str, p + 1, indent_to_eat - 4)
         ELSE IF charAt(str, p) = " " THEN eatIndent(str, p + 1, indent_to_eat - 1)
         ELSE <<next(str, p), TRUE>>
    ELSE <<p, FALSE>>

\* state.listSpaceStack[state.extra]; undefined out of range, and then
\* `indent_to_eat > 0` is false as for 0
indentToEat(s) ==
    IF s.extra.k = "num" /\ s.extra.n < Len(s.listSpaceStack)
    THEN s.listSpaceStack[s.extra.n + 1] ELSE 0

\* `if (++state.extra >= listLevel)`, inc the incremented value
listSpaceExit(s, inc) ==
    IF inc >= Len(s.listSpaceStack)
    THEN [s EXCEPT !.inside = null, !.extra = extraNull, !.combineTokens = "true"]
    ELSE [s EXCEPT !.extra = extraNum(inc), !.combineTokens = "true"]

\* the tags of one indent unit and the exit; s is the state after the loop
listIndentTags(s, p, firstMet, corrupted, ans) ==
    Res(listSpaceExit(s, extraToNumber(s.extra) + 1), p,
        retStyle(ans \cup {Tag("hmd-list-indent"),
                           TagN("hmd-list-indent-", extraToNumber(s.extra) + 1)}
                     \cup (IF firstMet
                           THEN {Tag("line-HyperMD-list-line"),
                                 TagN("line-HyperMD-list-line-", Len(s.listSpaceStack))}
                           ELSE {})
                     \cup (IF corrupted THEN {Tag("hmd-list-indent-corrupted")} ELSE {})),
        FALSE, "list-indent")

\* a corrupted indent that also drops the list nesting
listIndentEatenDropsList(s, eaten, firstMet, ans) ==
    listIndentTags(IF eaten[2]
                   THEN [s EXCEPT !.inside = null, !.extra = extraNull,
                                  !.listSpaceStack = <<>>]
                   ELSE s,
                   eaten[1], firstMet, eaten[2], ans)

\* the loop's outcome, eaten = <<position, corrupted>>
listIndentEaten(s, eaten, firstMet, ans) ==
    listIndentTags(IF eaten[2] THEN [s EXCEPT !.inside = null, !.extra = extraNull]
                   ELSE s,
                   eaten[1], firstMet, eaten[2], ans)

\* one indent unit
listIndent(s, str, p, firstMet, ans) ==
    listIndentEaten(s, eatIndent(str, p, indentToEat(s)), firstMet, ans)

tokenListSpace(s, str, p) ==
    IF s.extra.k = "num" /\ s.extra.n = 0
       /\ Len(s.listSpaceStack) > 0 /\ s.listSpaceStack[1] = 0
    THEN IF Len(s.listSpaceStack) = 1
         THEN Res([s EXCEPT !.inside = null, !.extra = extraNull,
                            !.combineTokens = "true"],
                  IF listRE(str, p) # -1 THEN listRE(str, p) ELSE next(str, p),
                  retStyle({Tag("line-HyperMD-list-line"),
                            TagN("line-HyperMD-list-line-", 1)}),
                  FALSE, "list-line")
         \* "skip this virtual token"
         ELSE listIndent([s EXCEPT !.extra = extraNum(s.extra.n + 1)], str, p,
                         TRUE, {Tag("hmd-list-indent-virtual")})
    ELSE listIndent(s, str, p, s.extra.k = "num" /\ s.extra.n = 0, {})

--------------------------------------------------------------------------
(* token: the inline content, "now list bullets and quote indents are gone" *)

\* "Finally, if nothing changed, move on"
inlineFallback(s, str, p, ans) ==
    LET m == meanlessCharsRE(str, p)
    IN  Res(s, IF m # -1 THEN m ELSE next(str, p),
            IF ans # {} THEN retStyle(ans) ELSE retNull, FALSE, "fallback")

\* simple styles that are switched on (|=) and never off
inlineSimpleStylesOr(s, str, p, ans) ==
    IF styleOf(s.nstyle) # 0 \/ charAt(str, p - 1) \notin WordChars
    THEN IF matchStr(str, p, <<"*", "*">>) \/ matchStr(str, p, <<"_", "_">>)
         THEN Res([s EXCEPT !.nstyle = bitOr(s.nstyle, STRONG)], p + 2,
                  retStyle(ans), FALSE, "strong")
         ELSE IF matchStr(str, p, <<"*">>) \/ matchStr(str, p, <<"_">>)
         THEN Res([s EXCEPT !.nstyle = bitOr(s.nstyle, EM)], p + 1,
                  retStyle(ans), FALSE, "em")
         ELSE IF matchStr(str, p, <<"~", "~">>)
         THEN Res([s EXCEPT !.nstyle = bitOr(s.nstyle, DEL)], p + 2,
                  retStyle(ans), FALSE, "del")
         ELSE inlineFallback(s, str, p, ans)
    ELSE inlineFallback(s, str, p, ans)

\* simple styles guarded by the preceding character alone, whatever is set
inlineSimpleStylesWordOnly(s, str, p, ans) ==
    IF charAt(str, p - 1) \notin WordChars
    THEN IF matchStr(str, p, <<"*", "*">>) \/ matchStr(str, p, <<"_", "_">>)
         THEN Res([s EXCEPT !.nstyle = bitXor(s.nstyle, STRONG)], p + 2,
                  retStyle(ans), FALSE, "strong")
         ELSE IF matchStr(str, p, <<"*">>) \/ matchStr(str, p, <<"_">>)
         THEN Res([s EXCEPT !.nstyle = bitXor(s.nstyle, EM)], p + 1,
                  retStyle(ans), FALSE, "em")
         ELSE IF matchStr(str, p, <<"~", "~">>)
         THEN Res([s EXCEPT !.nstyle = bitXor(s.nstyle, DEL)], p + 2,
                  retStyle(ans), FALSE, "del")
         ELSE inlineFallback(s, str, p, ans)
    ELSE inlineFallback(s, str, p, ans)

\* "DEL, EM, STRONG etc. simple styles"
inlineSimpleStyles(s, str, p, ans) ==
    IF styleOf(s.nstyle) # 0 \/ charAt(str, p - 1) \notin WordChars
    THEN IF matchStr(str, p, <<"*", "*">>)
         THEN Res([s EXCEPT !.nstyle = bitXor(s.nstyle, STRONG)], p + 2,
                  retStyle(ans), FALSE, "strong")
         ELSE IF matchStr(str, p, <<"_", "_">>)
         THEN Res([s EXCEPT !.nstyle = bitXor(s.nstyle, STRONG)], p + 2,
                  retStyle(ans), FALSE, "strong")
         ELSE IF matchStr(str, p, <<"*">>)
         THEN Res([s EXCEPT !.nstyle = bitXor(s.nstyle, EM)], p + 1,
                  retStyle(ans), FALSE, "em")
         ELSE IF matchStr(str, p, <<"_">>)
         THEN Res([s EXCEPT !.nstyle = bitXor(s.nstyle, EM)], p + 1,
                  retStyle(ans), FALSE, "em")
         ELSE IF matchStr(str, p, <<"~", "~">>)
         THEN Res([s EXCEPT !.nstyle = bitXor(s.nstyle, DEL)], p + 2,
                  retStyle(ans), FALSE, "del")
         ELSE inlineFallback(s, str, p, ans)
    ELSE inlineFallback(s, str, p, ans)

\* "ESCAPE related"; nstyle is the value read before the link code
inlineEscape(s, str, p, nstyle, ans) ==
    IF bitAnd(nstyle, ESCAPE) # 0
    THEN Res([s EXCEPT !.nstyle = s.nstyle - ESCAPE], next(str, p),
             retStyle(ans), FALSE, "escape-end")
    ELSE IF escapeRE(str, p) # -1
    THEN Res([s EXCEPT !.nstyle = bitOr(s.nstyle, ESCAPE)], escapeRE(str, p),
             retStyle(ans \cup HMDStyles(ESCAPE) \cup {Tag("hmd-escape-backslash")}),
             FALSE, "escape-begin")
    ELSE inlineSimpleStyles(s, str, p, ans)

\* a footnote name recognised anywhere on the line
linkBeginningAnywhere(str, p, atBeginning) ==
    IF footnoteNameRE(str, p + 1) THEN FOOTNOTE_NAME
    ELSE IF bareLinkRE(str, p + 1)
         THEN (IF charAt(str, p + 1) = "^" THEN FOOTREF_BEGIN ELSE BARELINK)
    ELSE LINK

\* "try to find a beginning": the link state entered at a `[`
linkBeginning(str, p, atBeginning) ==
    IF atBeginning /\ footnoteNameRE(str, p + 1) THEN FOOTNOTE_NAME
    ELSE IF bareLinkRE(str, p + 1)
         THEN (IF charAt(str, p + 1) = "^" THEN FOOTREF_BEGIN ELSE BARELINK)
    ELSE LINK

\* a link text whose `]` ends the link, with no LINK_URL part
linkInsideNoUrl(str, p, ns_link) ==
    CASE ns_link = FOOTREF_BEGIN -> <<FOOTREF, next(str, p)>>
      [] ns_link \in {FOOTREF, BARELINK, LINK} ->
            IF charAt(str, p) = "]" THEN <<0, p + 1>> ELSE <<-1, p>>
      [] ns_link = FOOTNOTE_NAME ->
            IF matchStr(str, p, <<"]", ":">>) THEN <<0, p + 2>> ELSE <<-1, p>>
      [] ns_link = LINK_URL ->
            IF quotedRE(str, p) # -1 THEN <<-1, quotedRE(str, p)>>
            ELSE IF charAt(str, p) = ")" THEN <<0, p + 1>>
            ELSE <<-1, p>>
      [] OTHER -> <<-1, p>>

\* "current is inside a link": <<new_ns_link or -1 for null, position>>
linkInside(str, p, ns_link) ==
    CASE ns_link = FOOTREF_BEGIN -> <<FOOTREF, next(str, p)>>
      [] ns_link \in {FOOTREF, BARELINK} ->
            IF charAt(str, p) = "]" THEN <<0, p + 1>> ELSE <<-1, p>>
      [] ns_link = FOOTNOTE_NAME ->
            IF matchStr(str, p, <<"]", ":">>) THEN <<0, p + 2>> ELSE <<-1, p>>
      [] ns_link = LINK ->
            IF charAt(str, p) = "]" THEN <<LINK_URL, p + 1>> ELSE <<-1, p>>
      [] ns_link = LINK_URL ->
            IF quotedRE(str, p) # -1 THEN <<-1, quotedRE(str, p)>>
            ELSE IF charAt(str, p) = ")" THEN <<0, p + 1>>
            ELSE <<-1, p>>
      [] OTHER -> <<-1, p>>

\* "initialize style string by `nstyle`"
styleString(nstyle) ==
    (IF bitAnd(nstyle, ESCAPE) # 0 THEN HMDStyles(ESCAPE) ELSE {})
    \cup HMDStyles(linkOf(nstyle))

\* the link state opened at `[`, begun the state linkBeginning chose
linkBegin(s, p, begun, ans) ==
    Res([s EXCEPT !.nstyle = bitOr(s.nstyle, begun)], p + 1,
        retStyle(ans \cup HMDStyles(begun)), FALSE, "link-begin")

\* inside a link, in = <<new_ns_link, position>>
linkChange(s, str, in, ans) ==
    IF in[1] # -1
    THEN Res([s EXCEPT !.nstyle = bitOr(s.nstyle - linkOf(s.nstyle), in[1])],
             in[2], retStyle(ans), FALSE, "link-change")
    ELSE inlineEscape(s, str, in[2], s.nstyle, ans)

\* "now process mixable (non-exclusive) styles": LINK related
inlineLink(s, str, p, atBeginning) ==
    IF linkOf(s.nstyle) = 0
    THEN IF linkOpenRE(str, p) # -1
         THEN linkBegin(s, p, linkBeginning(str, p, atBeginning), styleString(s.nstyle))
         ELSE inlineEscape(s, str, p, s.nstyle, styleString(s.nstyle))
    ELSE linkChange(s, str, linkInside(str, p, linkOf(s.nstyle)), styleString(s.nstyle))

\* a `|` that is a table separator; s is the state with the table set
tableSep(s, p, isNew, hasSep) ==
    Res([s EXCEPT !.tableCol = s.tableCol + 1], p + 1,
        retStyle((IF isNew THEN {Tag("line-HyperMD-table-title")} ELSE {})
                 \cup (IF isNew /\ hasSep
                       THEN {Tag("line-HyperMD-table-title-has_rowsep")} ELSE {})
                 \cup (IF s.tableCol = 0
                       THEN {TagN("line-HyperMD-table_T", s.table),
                             Tag("line-HyperMD-table-row"),
                             TagN("line-HyperMD-table-row-", s.tableRow)}
                       ELSE {})
                 \cup {Tag("hmd-table-sep"), TagN("hmd-table-sep-", s.tableCol)}),
        isNew, "table")

\* a pipe that is counted as a column before the table is established
tableNewCountsFirst(s, str, p, hasSep, ln) ==
    IF ~leadingPipeRE(str) /\ ~hasSep
    THEN Res([s EXCEPT !.tableCol = s.tableCol + 1], p + 1, retNull, TRUE, "no-table")
    ELSE tableSep([s EXCEPT !.table = ln, !.tableRow = 0], p, TRUE, hasSep)

\* a new table that needs the leading pipe, whatever the next line is
tableNewNeedsPipe(s, str, p, hasSep, ln) ==
    IF ~leadingPipeRE(str)
    THEN Res(s, p + 1, retNull, TRUE, "no-table")
    ELSE tableSep([s EXCEPT !.table = ln, !.tableRow = 0], p, TRUE, hasSep)

\* `if (!state.table)`: a new table needs a leading pipe or a title separator
\* on the next line; hasSep is tableTitleSepRE.test(stream.lookAhead(1))
tableNew(s, str, p, hasSep, ln) ==
    IF ~leadingPipeRE(str) /\ ~hasSep
    THEN Res(s, p + 1, retNull, TRUE, "no-table")
    ELSE tableSep([s EXCEPT !.table = ln, !.tableRow = 0], p, TRUE, hasSep)

canMakeTable(s) ==
    s.nstyle = 0 /\ Len(s.listSpaceStack) = 0 /\ s.inside \in {nothing, null}

\* "possible table"; la is stream.lookAhead(1), ln is stream.lineOracle.line
inlineTable(s, str, p, atBeginning, la, ln) ==
    IF canMakeTable(s) /\ charAt(str, p) = "|"
    THEN IF s.table = NoTable
         THEN tableNew(s, str, p, tableTitleSepRE(la), ln)
         ELSE tableSep(s, p, FALSE, FALSE)
    ELSE inlineLink(s, str, p, atBeginning)

\* inline math opened by any `$`, with no look for the closing one
inlineMathNoClosing(s, str, start, tmp, atBeginning, la, ln) ==
    IF tmp # -1
    THEN Res([s EXCEPT !.inside = math,
                       !.extra = extraStr(SubSeq(str, start + 1, tmp)),
                       !.combineTokens = "false"],
             tmp,
             retStyle({Tag("formatting"), Tag("formatting-math"),
                       Tag("formatting-math-begin"), Tag("math"),
                       TagN("math-", tmp - start)}),
             FALSE, "math-begin")
    ELSE inlineTable(s, str, start, atBeginning, la, ln)

\* "inline math": tmp is the end of /^\${1,2}/ or -1; the match is consumed
\* even when math is not entered
inlineMath(s, str, start, tmp, atBeginning, la, ln) ==
    IF tmp # -1 /\ (tmp - start = 2 \/ closingDollarRE(str, start + 1))
    THEN Res([s EXCEPT !.inside = math,
                       !.extra = extraStr(SubSeq(str, start + 1, tmp)),
                       !.combineTokens = "false"],
             tmp,
             retStyle({Tag("formatting"), Tag("formatting-math"),
                       Tag("formatting-math-begin"), Tag("math"),
                       TagN("math-", tmp - start)}),
             FALSE, "math-begin")
    ELSE inlineTable(s, str, IF tmp # -1 THEN tmp ELSE start, atBeginning, la, ln)

\* the table title separator line and inline code;
\* atBeginning is state.atBeginning as read before it is cleared
inlineContent(s, str, start, atBeginning, la, ln) ==
    IF s.inside = tableTitleSep /\ tableDashRE(str, start) # -1
    THEN Res([s EXCEPT !.combineTokens = "false"], tableDashRE(str, start),
             retStyle({Tag("hmd-table-title-dash"), Tag("line-HyperMD-table-row"),
                       Tag("line-HyperMD-table-rowsep")}),
             FALSE, "table-dash")
    ELSE IF inlineCodeRE(str, start) # -1
    THEN Res(s, inlineCodeRE(str, start), retNull, FALSE, "inline-code")
    ELSE inlineMath(s, str, start, dollarRE(str, start), atBeginning, la, ln)

\* "now list bullets and quote indents are gone. Enter the content."
tokenInline(s, str, start, la, ln) ==
    inlineContent([s EXCEPT
                     !.atBeginning = IF s.atBeginning /\ charAt(str, start) \notin Space
                                     THEN FALSE ELSE s.atBeginning,
                     !.combineTokens = "true"],
                  str, start, s.atBeginning, la, ln)

--------------------------------------------------------------------------
(* token(stream, state) *)

\* after the line-start code
tokenContent(s, str, start, la, ln) ==
    IF s.inside = listSpace THEN tokenListSpace(s, str, start)
    ELSE tokenInline(s, str, start, la, ln)

\* ls is the result of the line-start code
tokenLine(ls, str, la, ln) ==
    IF ls.done THEN Res(ls.st, ls.pos, ls.ret, FALSE, ls.by)
    ELSE tokenContent(ls.st, str, 0, la, ln)

\* s is the state after `state.combineTokens = null`
tokenSwitch(s, str, start, la, ln) ==
    IF s.inside = math THEN tokenMath(s, str, start)
    ELSE IF s.inside = codeFence THEN tokenCodeFence(s, str, start)
    ELSE IF start = 0 THEN tokenLine(lineStart(s, str), str, la, ln)
    ELSE tokenContent(s, str, start, la, ln)

token(s, str, start, la, ln) ==
    tokenSwitch([s EXCEPT !.combineTokens = "null"], str, start, la, ln)

--------------------------------------------------------------------------
(* The state object and its array on the heap *)

Refs == {1, 2}

\* the state's value: listSpaceStack read through the reference
val(s, h) == [s EXCEPT !.listSpaceStack = h[s.listSpaceStack]]

\* the fields startState defines (combineTokens is the overlay addon's)
fields(v) == [v EXCEPT !.combineTokens = "undefined"]

\* array objects no state refers to are dropped
collect(h, live) == [r \in Refs |-> IF r \in live THEN h[r] ELSE <<>>]

\* a reference no live state holds, for a newly created array
fresh(live) == Min(IF Refs \ live = {} THEN Refs ELSE Refs \ live)

\* a copy that keeps the reference to the original's array (no slice())
copyStateShared(s, h, r) ==
    [st |-> [s EXCEPT !.combineTokens = "undefined"], heap |-> h]

\* copyState(s): a new object; listSpaceStack.slice() is a new array at r.
\* combineTokens is not among the copied fields
copyState(s, h, r) ==
    [st |-> [s EXCEPT !.listSpaceStack = r, !.combineTokens = "undefined"],
     heap |-> [h EXCEPT ![r] = h[s.listSpaceStack]]]

\* blankLine(s): the assignments, with `s.listSpaceStack = []` a new array at r
blankLine(s, h, r) ==
    [st |-> [blankLineState(val(s, h)) EXCEPT !.listSpaceStack = r],
     heap |-> [h EXCEPT ![r] = <<>>],
     ret |-> blankLineRet(s)]

--------------------------------------------------------------------------
(* The host: CodeMirror's line loop.  A line of the document is fixed when the
   scan reaches it, or earlier when stream.lookAhead(1) reads it *)

\* all lines of at most n characters of the alphabet A
Strings(A, n) == UNION {[1..k -> A] : k \in 0..n}

unknownAhead == [known |-> FALSE, eof |-> FALSE, text |-> <<>>]
knownAhead(t) == [known |-> TRUE, eof |-> FALSE, text |-> t]
eofAhead == [known |-> TRUE, eof |-> TRUE, text |-> <<>>]

\* the text RegExp.test sees for stream.lookAhead(1)
lookAheadText(a) == IF a.eof THEN undefinedText ELSE a.text

\* the lines that may follow the current one
followers(L) ==
    IF ahead.known THEN {ahead}
    ELSE {knownAhead(t) : t \in (IF line + 1 < MaxLines THEN L ELSE {})}
         \cup {eofAhead}

\* the line before the current one: none before the first line
noLine == [some |-> FALSE, text |-> <<>>]
lineBefore == IF line >= 0 THEN [some |-> TRUE, text |-> string] ELSE noLine

\* the record of a host step that is no call of token or blankLine
noCall(op, v, b) ==
    [op |-> op, by |-> "", start |-> 0, ret |-> retNull, prev |-> v, before |-> b]

noSaved ==
    [n |-> 0, st |-> [startState EXCEPT !.listSpaceStack = 1], at |-> startState]

Init ==
    /\ state = [startState EXCEPT !.listSpaceStack = 1]
    /\ heap = [r \in Refs |-> <<>>]
    /\ saved = noSaved
    /\ string = <<>>
    /\ pos = 0
    /\ line = -1
    /\ ahead = unknownAhead
    /\ call = noCall("start", startState, noLine)

\* the arrays the saved clone holds
savedRefs == IF saved.n > 0 THEN {saved.st.listSpaceStack} ELSE {}

\* one call of token(stream, state) at a position before the end of the line;
\* the code changes the array of listSpaceStack in place (splice, push)
applyToken(r, a) ==
    /\ state' = [r.st EXCEPT !.listSpaceStack = state.listSpaceStack]
    /\ heap' = [heap EXCEPT ![state.listSpaceStack] = r.st.listSpaceStack]
    /\ pos' = r.pos
    /\ ahead' = a
    /\ call' = [op |-> "token", by |-> r.by, start |-> pos, ret |-> r.ret,
                prev |-> val(state, heap), before |-> call.before]
    /\ UNCHANGED <<saved, string, line>>

\* r0 is the call's result with no line after the current one; the next line
\* is fixed by a call that reads it
tokenCall(L, r0) ==
    IF r0.looked
    THEN \E a \in followers(L) :
             applyToken(token(val(state, heap), string, pos, lookAheadText(a), line), a)
    ELSE applyToken(r0, ahead)

Token(L) ==
    /\ pos < Len(string)
    /\ tokenCall(L, token(val(state, heap), string, pos, undefinedText, line))

\* the host moves on to the next line, which is not empty
Advance(L) ==
    /\ pos = Len(string)
    /\ \E a \in followers(L) :
          /\ ~a.eof
          /\ a.text # <<>>
          /\ string' = a.text
    /\ pos' = 0
    /\ line' = line + 1
    /\ ahead' = unknownAhead
    /\ call' = noCall("line", val(state, heap), lineBefore)
    /\ UNCHANGED <<state, heap, saved>>

\* the state and heap after blankLine, b its result
applyBlankLine(b) ==
    /\ state' = b.st
    /\ heap' = collect(b.heap, {b.st.listSpaceStack} \cup savedRefs)
    /\ call' = [op |-> "blankLine", by |-> "", start |-> 0, ret |-> b.ret,
                prev |-> val(state, heap), before |-> lineBefore]

\* the host moves on to the next line, which is empty, and calls blankLine
BlankLine(L) ==
    /\ pos = Len(string)
    /\ knownAhead(<<>>) \in followers(L)
    /\ applyBlankLine(blankLine(state, heap, fresh(savedRefs)))
    /\ string' = <<>>
    /\ pos' = 0
    /\ line' = line + 1
    /\ ahead' = unknownAhead
    /\ UNCHANGED saved

\* the clone c is kept beside the state
applyCopyState(c) ==
    /\ saved' = [n |-> 1, st |-> c.st, at |-> fields(val(state, heap))]
    /\ heap' = collect(c.heap, {state.listSpaceStack, c.st.listSpaceStack})

\* between two lines the host takes a snapshot: copyState(state)
CopyState ==
    /\ pos = Len(string)
    /\ applyCopyState(copyState(state, heap, fresh({state.listSpaceStack})))
    /\ call' = noCall("copyState", val(state, heap), call.before)
    /\ UNCHANGED <<state, string, pos, line, ahead>>

\* between two lines the host goes on with the clone and keeps the state it
\* had as the snapshot
Resume ==
    /\ pos = Len(string)
    /\ saved.n > 0
    /\ state' = saved.st
    /\ saved' = [n |-> 1, st |-> state, at |-> fields(val(state, heap))]
    /\ call' = noCall("resume", val(state, heap), call.before)
    /\ UNCHANGED <<heap, string, pos, line, ahead>>

--------------------------------------------------------------------------
(* Lists: lines of spaces, tabs and bullets, and the two lines that build the
   nesting [2, 4] and indent by 7 columns *)

ListLines ==
    Strings({" ", "\t", "-"}, MaxLen)
    \cup {<<" ", " ", "-", " ">>, <<"\t", " ", " ", " ">>}

NextList == Token(ListLines) \/ Advance(ListLines) \/ BlankLine(ListLines)

SpecList == Init /\ [][NextList]_vars

--------------------------------------------------------------------------
(* Snapshots: a document of every kind of line, scanned by a host that clones
   the state between lines and goes on with either object *)

CopyLines ==
    {<<>>,
     <<"-", " ">>,
     <<" ", "-", " ">>,
     <<">", " ", "a">>,
     <<" ", "*", "[", "a", "]", "(">>,
     <<"|", "|", "*">>,
     <<"$", "$">>,
     <<BQ, BQ, BQ>>}

NextCopy ==
    \/ Token(CopyLines)
    \/ Advance(CopyLines)
    \/ BlankLine(CopyLines)
    \/ CopyState
    \/ Resume

SpecCopy == Init /\ [][NextCopy]_vars

--------------------------------------------------------------------------
(* Code fences: lines of backticks and text, and three backticks before or
   after another character *)

FenceLines ==
    Strings({BQ, "a"}, MaxLen)
    \cup {<<BQ, BQ, BQ, " ">>, <<BQ, BQ, BQ, "a">>, <<" ", BQ, BQ, BQ>>}

NextFence == Token(FenceLines) \/ Advance(FenceLines) \/ BlankLine(FenceLines)

SpecFence == Init /\ [][NextFence]_vars

--------------------------------------------------------------------------
(* Emphasis: lines of delimiters and text, and one emphasis inside a link *)

EmLines ==
    Strings({"*", "~", "a"}, MaxLen)
    \cup {<<"_", "_">>, <<"_", "a", "_">>, <<"a", "_", "a">>,
          <<"[", "*", "a", "*", "]">>}

NextEm == Token(EmLines) \/ Advance(EmLines) \/ BlankLine(EmLines)

SpecEm == Init /\ [][NextEm]_vars

--------------------------------------------------------------------------
(* Links and footnotes: lines of brackets and text, the links that need longer
   lines, and a quote, whose continuation line is scanned before any link *)

LinkLines ==
    Strings({"[", "]", "a"}, MaxLen)
    \cup {<<"[", "a", "]", ":">>,
          <<"a", "[", "a", "]", ":">>,
          <<" ", "[", "a", "]", ":">>,
          <<"[", "^", "1", "]", ":", " ", "n">>,
          <<"[", "^", "a", "]">>,
          <<"a", " ", "[", "^", "a", "]", " ", "a">>,
          <<"[", "a", "]", "(", "a", ")">>,
          <<"[", "a", "]", "(", "\"", ")", "\"", ")">>,
          <<"[", "a", "]", "[", "a", "]">>,
          <<"a", " ", "[", "a", "]", " ", "a">>,
          <<">", " ", "a">>}

NextLink == Token(LinkLines) \/ Advance(LinkLines) \/ BlankLine(LinkLines)

SpecLink == Init /\ [][NextLink]_vars

--------------------------------------------------------------------------
(* Tables: lines of pipes, dashes and text, a two-column title row with its
   separator row, and a pipe inside an emphasis *)

TableLines ==
    Strings({"|", "-", "a"}, MaxLen)
    \cup {<<"|", "a", "|", "b", "|">>,
          <<"|", "-", "|", "-", "|">>,
          <<" ", "|", "a">>,
          <<"*", "|">>}

NextTable == Token(TableLines) \/ Advance(TableLines) \/ BlankLine(TableLines)

SpecTable == Init /\ [][NextTable]_vars

--------------------------------------------------------------------------
(* Setext underlines: lines of dashes and equal signs, a text line, an indented
   code line, a fence line and a math line *)

SetextLines ==
    Strings({"-", "="}, MaxLen)
    \cup {<<"a">>, <<"\t", "a">>, <<BQ, BQ, BQ>>, <<"$", "$">>, <<"=", "=", "=", "=">>}

NextSetext == Token(SetextLines) \/ Advance(SetextLines) \/ BlankLine(SetextLines)

SpecSetext == Init /\ [][NextSetext]_vars

--------------------------------------------------------------------------
(* Table rows: lines of pipes, dollars and text, a fence line and a two-column
   row; a math span or a code fence can open inside a table *)

RowsLines ==
    Strings({"|", "$", "a"}, MaxLen)
    \cup {<<BQ, BQ, BQ>>, <<"|", "a", "|", "b", "|">>}

NextRows == Token(RowsLines) \/ Advance(RowsLines) \/ BlankLine(RowsLines)

SpecRows == Init /\ [][NextRows]_vars

--------------------------------------------------------------------------
(* Escapes: lines of backslashes, emphasis delimiters and text, and a
   backslash before a character that opens a span: inline code, math, a link *)

EscLines ==
    Strings({"\\", "*", "a"}, MaxLen)
    \cup {<<"\\", BQ, "a", BQ>>,
          <<"\\", "[", "a", "]">>,
          <<"\\", "$", "$">>,
          <<"*", "\\", "*">>,
          <<"~", "~", "a", "~", "~">>,
          <<"_", "a", "_">>}

NextEsc == Token(EscLines) \/ Advance(EscLines) \/ BlankLine(EscLines)

SpecEsc == Init /\ [][NextEsc]_vars

--------------------------------------------------------------------------
(* Math: lines of dollars, backslashes and text, and the longer lines where a
   backslash stands before the closing dollar *)

MathLines ==
    Strings({"$", "\\", "a"}, MaxLen)
    \cup {<<"$", "\\", "$", "$">>,
          <<"$", "a", "\\", "$">>,
          <<"$", "\\", "\\", "$">>,
          <<"$", "a", "$", "$">>,
          <<"$", "a", "\\", "$", "$">>}

NextMath == Token(MathLines) \/ Advance(MathLines) \/ BlankLine(MathLines)

SpecMath == Init /\ [][NextMath]_vars

--------------------------------------------------------------------------
(* Blockquotes: lines of quote markers, spaces and text, a fence line, an
   indented code line, an underline and a math line *)

QuoteLines ==
    Strings({">", " ", "a"}, MaxLen)
    \cup {<<">", " ", ">", " ", "a">>,
          <<">", ">", " ", ">", "a">>,
          <<BQ, BQ, BQ>>,
          <<"\t", "a">>,
          <<"-", "-", "-">>,
          <<"$", "$">>}

NextQuote == Token(QuoteLines) \/ Advance(QuoteLines) \/ BlankLine(QuoteLines)

SpecQuote == Init /\ [][NextQuote]_vars

--------------------------------------------------------------------------
(* The list stack: lines of spaces and bullets, a bullet nested under another
   by spaces and by a tab, a text line, and a math span and a code fence opened
   inside a list *)

StackLines ==
    Strings({" ", "-"}, MaxLen)
    \cup {<<" ", " ", "-", " ">>, <<"\t", "-", " ">>,
          <<"-", " ", "$", "$">>, <<"$", "$">>, <<BQ, BQ, BQ>>, <<"a">>}

NextStack == Token(StackLines) \/ Advance(StackLines) \/ BlankLine(StackLines)

SpecStack == Init /\ [][NextStack]_vars

--------------------------------------------------------------------------
(* What the properties below read of the last call *)

\* the characters the last call consumed
consumed == SubSeq(string, call.start + 1, pos)

\* the state before and after the last call, listSpaceStack by value
before == call.prev
after == val(state, heap)

--------------------------------------------------------------------------
(* Progress *)

\* C1: every token call made while at least one character remains on the
\* current line advances the scan position by at least one character; no call
\* returns a zero-width token, the calls of the list-indent algorithm included
C1_Progress == call.op = "token" => pos > call.start

--------------------------------------------------------------------------
(* blankLine *)

\* C2: immediately after blankLine returns, quoteLevel = 0, the list stack is
\* empty, table = null, tableCol = 0, tableRow = 0, no style flag is set, no
\* link state is set, atBeginning = true and prevLineIsEmpty = true
C2_BlankLineReset ==
    call.op = "blankLine" =>
        /\ after.quoteLevel = 0
        /\ after.listSpaceStack = <<>>
        /\ after.table = NoTable
        /\ after.tableCol = 0
        /\ after.tableRow = 0
        /\ styleOf(after.nstyle) = 0
        /\ linkOf(after.nstyle) = 0
        /\ after.atBeginning
        /\ after.prevLineIsEmpty

\* blankLine called in a quote, in a list, inside an emphasis and a link url
C2_Witness ==
    /\ call.op = "blankLine"
    /\ before.quoteLevel > 0
    /\ before.listSpaceStack # <<>>
    /\ styleOf(before.nstyle) # 0
    /\ linkOf(before.nstyle) # 0
    /\ ~before.atBeginning

--------------------------------------------------------------------------
(* copyState *)

\* C3: the clone copyState returns equals the original in every field, and
\* the two are independent: whatever token and blankLine calls are made on
\* one of them, the other keeps the value it had when the clone was made,
\* its listSpaceStack included
C3_CopyIndependent ==
    saved.n > 0 =>
        /\ fields(val(saved.st, heap)) = saved.at
        /\ saved.st.listSpaceStack # state.listSpaceStack

\* a token call has changed the list stack in place (push, splice) of the
\* object being scanned, and the other object holds the stack as it was
C3_Witness ==
    /\ saved.n > 0
    /\ call.op = "token"
    /\ before.listSpaceStack = saved.at.listSpaceStack
    /\ before.listSpaceStack # <<>>
    /\ after.listSpaceStack # before.listSpaceStack

--------------------------------------------------------------------------
(* Code fences *)

fence3 == <<BQ, BQ, BQ>>

\* a line that closes a fence: three backticks and nothing but blanks after
closesFence(str) ==
    /\ Len(str) >= 3
    /\ SubSeq(str, 1, 3) = fence3
    /\ \A k \in 4..Len(str) : str[k] \in Space

\* C4: with no block mode, a line of three backticks returns the fence-begin
\* tag and enters codeFence; in codeFence every token of a content line
\* returns the code-block tag and stays in codeFence (so do the host's line
\* steps), and a closing line of three backticks returns the fence-end tag
\* and leaves no block mode
C4_FenceSymmetry ==
    /\ (/\ call.op = "token"
        /\ call.start = 0
        /\ string = fence3
        /\ before.inside \in {nothing, null})
       => /\ call.ret = retStyle(codeblockTags
                                 \cup {Tag("line-HyperMD-codeblock-begin")})
          /\ pos = 3
          /\ after.inside = codeFence
    /\ (call.op = "token" /\ before.inside = codeFence)
       => IF call.start = 0 /\ closesFence(string)
          THEN /\ call.ret = retStyle(codeblockTags
                                      \cup {Tag("line-HyperMD-codeblock-end")})
               /\ pos = Len(string)
               /\ after.inside = nothing
          ELSE /\ call.ret = retStyle(codeblockTags)
               /\ pos = Len(string)
               /\ after.inside = codeFence
    /\ call.op \in {"line", "blankLine"} => after.inside = before.inside

\* the third line, three backticks, has closed the fence that the first line
\* opened and that held the content line "a"
C4_Witness ==
    /\ line = 2
    /\ string = fence3
    /\ call.op = "token"
    /\ call.before = [some |-> TRUE, text |-> <<"a">>]
    /\ before.inside = codeFence
    /\ after.inside = nothing
    /\ Tag("line-HyperMD-codeblock-end") \in call.ret.tags

--------------------------------------------------------------------------
(* The list stack of a list line *)

\* the sum of the widths of the levels from + 1 .. to of a stack
RECURSIVE widthOf(_, _, _)
widthOf(stack, from, to) ==
    IF to <= from THEN 0 ELSE stack[to] + widthOf(stack, from, to - 1)

\* the stack of a list line indented by n columns, as the claim words it:
\* the levels are walked from `first` (past a leading 0-width level), each
\* taking its width from n; the stack is cut at the first level reached with
\* nothing left; what is left after all levels is a new deepest level
rebuilt(stack, n) ==
    LET first == IF stack # <<>> /\ stack[1] = 0 THEN 1 ELSE 0
        left(i) == n - widthOf(stack, first, i)
        cuts == {i \in first..(Len(stack) - 1) : left(i) <= 0}
        kept == IF cuts # {} THEN SubSeq(stack, 1, Min(cuts))
                ELSE IF left(Len(stack)) > 0 THEN Append(stack, left(Len(stack)))
                ELSE stack
    IN  IF kept = <<>> THEN <<0>> ELSE kept

\* the last call scanned the start of a list line: the list-indent algorithm
\* ran at column 0 of a line that continues a list or opens one
listLineStart ==
    /\ call.op = "token"
    /\ call.start = 0
    /\ call.by \in {"list-indent", "list-line"}
    /\ (before.listSpaceStack # <<>> \/ listRE(string, 0) # -1)

\* C5: at the start of a list line the stack is rebuilt from the line's
\* indentation as described; [2,4] with indentation 2 becomes [2], [2,4] with
\* indentation 7 becomes [2,4,1], and the stack is never empty afterwards
C5_ListIndentRebuild ==
    listLineStart =>
        /\ after.listSpaceStack = rebuilt(before.listSpaceStack, indentation(string))
        /\ after.listSpaceStack # <<>>
        /\ (before.listSpaceStack = <<2, 4>> /\ indentation(string) = 2)
           => after.listSpaceStack = <<2>>
        /\ (before.listSpaceStack = <<2, 4>> /\ indentation(string) = 7)
           => after.listSpaceStack = <<2, 4, 1>>

\* a line indented by 7 columns under the nesting [2, 4]
C5_Witness ==
    /\ listLineStart
    /\ before.listSpaceStack = <<2, 4>>
    /\ indentation(string) = 7
    /\ after.listSpaceStack = <<2, 4, 1>>

--------------------------------------------------------------------------
(* Emphasis *)

\* is the flag f (a power of two) set in the mask n
hasFlag(n, f) == (n \div f) % 2 = 1

\* the delimiters of a flag
delimiters(f) ==
    IF f = STRONG THEN {<<"*", "*">>, <<"_", "_">>}
    ELSE IF f = EM THEN {<<"*">>, <<"_">>}
    ELSE {<<"~", "~">>}

\* new is old with the flag f flipped, every other flag and the link state kept
flipped(old, new, f) ==
    /\ \A g \in {DEL, EM, STRONG, ESCAPE} :
          hasFlag(new, g) <=> (IF g = f THEN ~hasFlag(old, g) ELSE hasFlag(old, g))
    /\ linkOf(new) = linkOf(old)

\* C6: a call that recognises an emphasis delimiter, and any call that changes
\* one of the flags Strong, Emphasis, Strikethrough, has consumed exactly one
\* delimiter and flipped exactly that delimiter's flag, the other flags and
\* the link state unchanged; `*a*` as the first line sets Emphasis at the
\* first `*`, keeps it over `a`, clears it at the closing `*` and ends with
\* no style set
C6_EmphasisToggling ==
    /\ (/\ call.op = "token"
        /\ \/ call.by \in {"strong", "em", "del"}
           \/ \E g \in {DEL, EM, STRONG} :
                  hasFlag(after.nstyle, g) # hasFlag(before.nstyle, g))
       => \E f \in {DEL, EM, STRONG} :
              /\ consumed \in delimiters(f)
              /\ flipped(before.nstyle, after.nstyle, f)
    /\ (line = 0 /\ string = <<"*", "a", "*">>)
       => \/ pos = 0 /\ after.nstyle = 0
          \/ pos = 1 /\ after.nstyle = EM
          \/ pos = 2 /\ after.nstyle = EM /\ call.ret = retNull
          \/ pos = 3 /\ after.nstyle = 0

\* the closing `*` of `*a*` has cleared Emphasis
C6_Witness ==
    /\ line = 0
    /\ string = <<"*", "a", "*">>
    /\ pos = 3
    /\ call.op = "token"
    /\ hasFlag(before.nstyle, EM)
    /\ after.nstyle = 0

--------------------------------------------------------------------------
(* Links and footnotes *)

\* the index of the `]` that closes the span a `[` at p opens: the first `]`
\* after p, with at least one character between; -1 when there is none
spanClose(str, p) ==
    LET closers == {k \in (p + 1)..(Len(str) - 1) : str[k + 1] = "]"}
    IN  IF charAt(str, p) = "[" /\ closers # {} /\ Min(closers) > p + 1
        THEN Min(closers) ELSE -1

\* the link state the claim gives the span opened at p
entered(str, p, atContentStart) ==
    IF atContentStart /\ charAt(str, spanClose(str, p) + 1) = ":"
    THEN FOOTNOTE_NAME
    ELSE IF charAt(str, spanClose(str, p) + 1) \notin {"(", "["}
    THEN (IF charAt(str, p + 1) = "^" THEN FOOTREF_BEGIN ELSE BARELINK)
    ELSE LINK

\* the last call was a token call that reached the inline content: it was
\* not taken by math, a code fence, a quote continuation or a list indent
inlineCall ==
    /\ call.op = "token"
    /\ call.by \notin {"math", "math-end", "fence", "fence-end",
                       "quote-cont", "list-line", "list-indent"}

linkEdge(from, to, eaten) ==
    \/ from = 0 /\ to \in {LINK, BARELINK, FOOTREF_BEGIN, FOOTNOTE_NAME}
                /\ eaten = <<"[">>
    \/ from = FOOTREF_BEGIN /\ to = FOOTREF /\ eaten = <<"^">>
    \/ from \in {FOOTREF, BARELINK} /\ to = 0 /\ eaten = <<"]">>
    \/ from = FOOTNOTE_NAME /\ to = 0 /\ eaten = <<"]", ":">>
    \/ from = LINK /\ to = LINK_URL /\ eaten = <<"]">>
    \/ from = LINK_URL /\ to = 0 /\ eaten = <<")">>

\* C8: a token call changes the link state only along the edges of the state
\* machine, consuming the edge's characters; any other change is blankLine's;
\* `[a](a)` as the first line runs LINK, LINK_URL, none and `[^a]` runs
\* FOOTREF_BEGIN, FOOTREF, none
C8_LinkTransitions ==
    /\ linkOf(after.nstyle) # linkOf(before.nstyle)
       => \/ call.op = "blankLine"
          \/ /\ call.op = "token"
             /\ linkEdge(linkOf(before.nstyle), linkOf(after.nstyle), consumed)
    /\ (line = 0 /\ string = <<"[", "a", "]", "(", "a", ")">>)
       => linkOf(after.nstyle) =
            (CASE pos \in {1, 2} -> LINK
               [] pos \in {3, 4, 5} -> LINK_URL
               [] OTHER -> 0)
    /\ (line = 0 /\ string = <<"[", "^", "a", "]">>)
       => linkOf(after.nstyle) =
            (CASE pos = 1 -> FOOTREF_BEGIN
               [] pos \in {2, 3} -> FOOTREF
               [] OTHER -> 0)

\* the `)` of `[a](a)` has closed the link url
C8_Witness ==
    /\ line = 0
    /\ string = <<"[", "a", "]", "(", "a", ")">>
    /\ pos = 6
    /\ call.op = "token"
    /\ linkOf(before.nstyle) = LINK_URL
    /\ linkOf(after.nstyle) = 0

--------------------------------------------------------------------------
(* Tables *)

\* the line starts with optional whitespace followed by `|`
leadingPipe(str) ==
    \E k \in 1..Len(str) : str[k] = "|" /\ \A j \in 1..(k - 1) : str[j] \in Space

\* the line after the current one matches the title separator pattern
separatorFollows == ahead.known /\ ~ahead.eof /\ tableTitleSepRE(ahead.text)

\* the last call met a `|` that may make a table: no table yet, no inline
\* style, no list nesting, no block mode, and not the character a quote
\* continuation takes
pipeCall ==
    /\ call.op = "token"
    /\ charAt(string, call.start) = "|"
    /\ before.table = NoTable
    /\ before.nstyle = 0
    /\ before.listSpaceStack = <<>>
    /\ before.inside \in {nothing, null}
    /\ ~(call.start = 0 /\ before.quoteLevel > 0)

--------------------------------------------------------------------------
(* Setext underlines *)

\* the last call scanned, from column 0 and outside codeFence and math, a
\* line of three or more `-` or of three or more `=` that has a line before it
underlineCall ==
    /\ call.op = "token"
    /\ call.start = 0
    /\ before.inside \notin {codeFence, math}
    /\ call.before.some
    /\ Len(string) >= 3
    /\ \E c \in {"-", "="} : \A k \in 1..Len(string) : string[k] = c

\* C10: such a line is a setext underline (level 1 for `=`, 2 for `-`)
\* exactly when the line before it was not blank, and prevLineIsEmpty is
\* true there exactly when the line before it was blank, whatever kind of
\* line that was
C10_SetextUnderline ==
    underlineCall =>
        /\ before.prevLineIsEmpty <=> call.before.text = <<>>
        /\ (TagN("line-HyperMD-header-line-", IF string[1] = "=" THEN 1 ELSE 2)
              \in call.ret.tags)
           <=> call.before.text # <<>>

--------------------------------------------------------------------------
(* The table title separator and the blank line *)

\* C11: a table-separator span does not survive a blank line: in every
\* reachable state, inside = tableTitleSep implies that a table is set and
\* tableRow = 1; after blankLine inside is not tableTitleSep
C11_SeparatorSpan ==
    /\ after.inside = tableTitleSep =>
           after.table # NoTable /\ after.tableRow = 1
    /\ call.op = "blankLine" => after.inside # tableTitleSep

--------------------------------------------------------------------------
(* The table counters *)

\* the call is the first token call of its line and a table is set
rowStartCall == call.op = "token" /\ call.start = 0 /\ before.table # NoTable

\* the call was made in Math or CodeFence mode, which return before the
\* line-start code
blockCall == before.inside \in {math, codeFence}

\* tableCol counts the `|` classified as table separators in the row
columnsCounted ==
    call.op = "token" =>
        after.tableCol =
            (IF call.start = 0 /\ ~blockCall THEN 0 ELSE before.tableCol)
            + (IF call.by = "table" THEN 1 ELSE 0)

\* C12 as stated: while a table is set, the first token call of every
\* non-blank line increments tableRow by exactly one and resets tableCol to 0,
\* so on the k-th line after the table's title line tableRow = k; within a row
\* tableCol increases by one per `|` classified as a table separator
C12_TableCounters ==
    /\ rowStartCall =>
           /\ after.tableRow = before.tableRow + 1
           /\ after.tableCol = (IF call.by = "table" THEN 1 ELSE 0)
    /\ call.op = "token" /\ after.table # NoTable =>
           after.tableRow = line - after.table
    /\ call.op = "token" /\ call.start > 0 =>
           after.tableCol = before.tableCol + (IF call.by = "table" THEN 1 ELSE 0)

\* C12 (amended): while a table is set, the first token call of every
\* non-blank line that is not made in Math or CodeFence mode increments
\* tableRow by exactly one and resets tableCol to 0; a first call made in Math
\* or CodeFence mode leaves tableRow and tableCol as they are, so on the k-th
\* line after the title line tableRow is at most k; within a row tableCol
\* increases by one per `|` classified as a table separator
C12_TableCountersOutsideBlocks ==
    /\ rowStartCall /\ ~blockCall => after.tableRow = before.tableRow + 1
    /\ rowStartCall /\ blockCall => after.tableRow = before.tableRow
    /\ call.op = "token" /\ call.start > 0 => after.tableRow = before.tableRow
    /\ columnsCounted
    /\ call.op = "token" /\ after.table # NoTable =>
           after.tableRow <= line - after.table

\* the second row after the title row begins with a table separator
C12_Witness ==
    /\ rowStartCall
    /\ ~blockCall
    /\ call.by = "table"
    /\ after.tableRow = 2
    /\ after.tableCol = 1

--------------------------------------------------------------------------
(* Escape *)

\* the last call was a token call made with the Escape flag set
escapedCall == call.op = "token" /\ hasFlag(before.nstyle, ESCAPE)

\* C13: Escape covers exactly one character: a token call sets the Escape flag
\* only when it consumes a backslash that is followed by another character on
\* the same line, and the token call immediately after it consumes exactly one
\* character and clears the Escape flag; hence Escape is never set at the end
\* of a line
C13_EscapeOneChar ==
    /\ (/\ call.op = "token"
        /\ ~hasFlag(before.nstyle, ESCAPE)
        /\ hasFlag(after.nstyle, ESCAPE))
       => /\ charAt(string, pos - 1) = "\\"
          /\ pos < Len(string)
    /\ escapedCall => pos = call.start + 1 /\ ~hasFlag(after.nstyle, ESCAPE)
    /\ pos = Len(string) => ~hasFlag(after.nstyle, ESCAPE)

--------------------------------------------------------------------------
(* Emphasis in the middle of a word *)

\* the flag of the delimiter at position p of the line, 0 when there is none;
\* `**` and `__` come before `*` and `_`
delimiterAt(str, p) ==
    IF matchStr(str, p, <<"*", "*">>) \/ matchStr(str, p, <<"_", "_">>) THEN STRONG
    ELSE IF charAt(str, p) \in {"*", "_"} THEN EM
    ELSE IF matchStr(str, p, <<"~", "~">>) THEN DEL
    ELSE 0

\* the last call reached the inline content at an emphasis delimiter
delimiterCall == inlineCall /\ delimiterAt(string, call.start) # 0

\* a word character stands right before the call's position
midWord == charAt(string, call.start - 1) \in WordChars

\* when no flag is set and the call is in the middle of a word, the mask is
\* left as it is
noMidWordToggle ==
    (delimiterCall /\ styleOf(before.nstyle) = 0 /\ midWord)
    => after.nstyle = before.nstyle

\* C14 as stated: when none of the flags Strikethrough, Emphasis, Strong,
\* Escape is set and the character before the scan position is a word
\* character, a token call at `*`, `_`, `**`, `__` or `~~` leaves the style
\* mask unchanged; when at least one of those flags is set, the delimiter
\* toggles its flag whatever the preceding character is
C14_NoMidWordToggle ==
    /\ noMidWordToggle
    /\ (delimiterCall /\ styleOf(before.nstyle) # 0)
       => flipped(before.nstyle, after.nstyle, delimiterAt(string, call.start))

\* C14 (amended): when none of the four flags is set and the character before
\* the scan position is a word character, a token call at a delimiter leaves
\* the style mask unchanged; when at least one of Strikethrough, Emphasis,
\* Strong is set and Escape is not, the delimiter toggles its flag whatever
\* the preceding character is; when Escape is set the call consumes one
\* character, clears Escape and toggles none of the three flags
C14_NoMidWordToggleUnescaped ==
    /\ noMidWordToggle
    /\ (/\ delimiterCall
        /\ styleOf(before.nstyle) # 0
        /\ ~hasFlag(before.nstyle, ESCAPE))
       => /\ flipped(before.nstyle, after.nstyle, delimiterAt(string, call.start))
          /\ consumed \in delimiters(delimiterAt(string, call.start))
    /\ (delimiterCall /\ hasFlag(before.nstyle, ESCAPE))
       => /\ pos = call.start + 1
          /\ after.nstyle = before.nstyle - ESCAPE

\* Emphasis is set and the closing `*` follows a word character: it is toggled
C14_Witness ==
    /\ delimiterCall
    /\ midWord
    /\ before.nstyle = EM
    /\ after.nstyle = 0

--------------------------------------------------------------------------
(* Inline math *)

dollar == extraStr(<<"$">>)
dollars == extraStr(<<"$", "$">>)

\* a `$` after position p of the line with no backslash right before it
closingDollarAfter(str, p) ==
    \E j \in (p + 1)..Len(str) : str[j] = "$" /\ j > 1 /\ str[j - 1] # "\\"

\* C15: Math mode is entered with delimiter `$` only when an unescaped `$`
\* appears later on the same line, and such a span is closed by a math-end
\* token before the end of that line: at every end of line inside = math
\* implies that extra is `$$`, and in Math mode extra is always `$` or `$$`
C15_SingleDollarOneLine ==
    /\ (call.op = "token" /\ call.by = "math-begin" /\ after.extra = dollar)
       => /\ consumed = <<"$">>
          /\ closingDollarAfter(string, pos + 1)
    /\ (pos = Len(string) /\ after.inside = math) => after.extra = dollars
    /\ after.inside = math => after.extra \in {dollar, dollars}
    /\ (call.op = "token" /\ before.inside = math /\ after.inside # math)
       => /\ call.by = "math-end"
          /\ consumed = before.extra.d

\* a `$` span with an escaped dollar inside is closed at the end of its line
C15_Witness ==
    /\ call.op = "token"
    /\ call.by = "math-end"
    /\ before.extra = dollar
    /\ pos = Len(string)
    /\ \E k \in 1..Len(string) : string[k] = "\\"

--------------------------------------------------------------------------
(* Blockquotes *)

\* the end of the leading run of `>` and whitespace of the line
markerEnd(str) == FirstNotIn(str, 0, {">"} \cup Space)

\* the number of `>` in that run
markerLevel(str) == Cardinality({k \in 1..markerEnd(str) : str[k] = ">"})

\* the tags of a quote marker of level n
markerTags(n) ==
    {Tag("formatting"), Tag("formatting-quote"), TagN("formatting-quote-", n),
     Tag("quote"), TagN("quote-", n),
     Tag("line-HyperMD-quote"), TagN("line-HyperMD-quote-", n)}

\* the first token call of a line, made outside CodeFence and Math mode on a
\* line that is no indented code and no setext underline
quoteLineCall ==
    /\ call.op = "token"
    /\ call.start = 0
    /\ before.inside \notin {math, codeFence}
    /\ call.by \notin {"indented", "stdheader"}

\* what the first call of a quote line does: the marker with its level, or one
\* character of a continuation line
quoteLineScanned ==
    /\ string[1] = ">"
       => /\ after.quoteLevel = markerLevel(string)
          /\ pos = markerEnd(string)
          /\ call.ret = retStyle(markerTags(markerLevel(string)))
    /\ (string[1] # ">" /\ before.quoteLevel > 0)
       => /\ pos = 1
          /\ call.ret = retStyle({Tag("line-HyperMD-quote"),
                                  TagN("line-HyperMD-quote-", before.quoteLevel)})
          /\ after.combineTokens = "true"
          /\ after.quoteLevel = before.quoteLevel

\* C16 as stated: outside CodeFence, Math, indented code and setext underline,
\* on a line that starts with `>` at column 0 the first token call sets
\* quoteLevel to the number of `>` in the leading run of `>` separated only by
\* whitespace and tags the marker with that level; on a line without a
\* leading `>` while quoteLevel > 0 the first token call consumes exactly one
\* character, tags it with the current quote level, sets combineTokens to true
\* and leaves quoteLevel unchanged
C16_QuoteLevel == quoteLineCall => quoteLineScanned

\* C16 (amended): the same, for every line that does not open a code fence: a
\* line of three backticks opens the fence before the quote level is looked
\* at, and leaves quoteLevel unchanged
C16_QuoteLevelNoFenceLine ==
    /\ (quoteLineCall /\ ~matchStr(string, 0, <<BQ, BQ, BQ>>)) => quoteLineScanned
    /\ (quoteLineCall /\ matchStr(string, 0, <<BQ, BQ, BQ>>))
       => /\ pos = 3
          /\ after.inside = codeFence
          /\ after.quoteLevel = before.quoteLevel

\* a marker of level 3 follows a quote of level 1
C16_Witness ==
    /\ quoteLineCall
    /\ before.quoteLevel = 1
    /\ string = <<">", ">", " ", ">", "a">>
    /\ after.quoteLevel = 3

--------------------------------------------------------------------------
(* Links across lines *)

\* the characters that close the link state ns
closing(ns) ==
    IF ns \in {FOOTREF, BARELINK} THEN <<"]">>
    ELSE IF ns = FOOTNOTE_NAME THEN <<"]", ":">>
    ELSE IF ns = LINK_URL THEN <<")">>
    ELSE <<>>

\* C17: link state carries across line boundaries: starting a new line never
\* changes the link state, the first token call of the next non-blank line is
\* made with the link state the line before ended with, and a link state
\* returns to None only when its closing characters are consumed or in
\* blankLine
C17_LinkAcrossLines ==
    /\ call.op = "line" => linkOf(after.nstyle) = linkOf(before.nstyle)
    /\ (call.op = "token" /\ linkOf(after.nstyle) # linkOf(before.nstyle))
       => call.by \in {"link-begin", "link-change"}
    /\ (linkOf(before.nstyle) # 0 /\ linkOf(after.nstyle) = 0)
       => \/ call.op = "blankLine"
          \/ /\ call.op = "token"
             /\ closing(linkOf(before.nstyle)) # <<>>
             /\ consumed = closing(linkOf(before.nstyle))

\* a line ended inside a link URL; the first call of the next line is made
\* with that link state and keeps it
C17_Witness ==
    /\ call.op = "token"
    /\ call.start = 0
    /\ line > 0
    /\ call.before.text = <<"[", "a", "]", "[", "a", "]">>
    /\ linkOf(before.nstyle) = LINK_URL
    /\ linkOf(after.nstyle) = LINK_URL

--------------------------------------------------------------------------
(* The list stack is rebuilt at the start of a line only *)

\* C18: listSpaceStack is mutated only at line start: a token call whose scan
\* position is greater than 0 leaves it unchanged, and so does every token
\* call made in CodeFence or Math mode; the stack changes only in the
\* list-rebuild step of a column-0 token call and in blankLine
C18_StackAtLineStart ==
    /\ (call.op = "token" /\ call.start > 0)
       => after.listSpaceStack = before.listSpaceStack
    /\ (call.op = "token" /\ before.inside \in {math, codeFence})
       => after.listSpaceStack = before.listSpaceStack
    /\ after.listSpaceStack # before.listSpaceStack
       => \/ call.op = "blankLine" /\ after.listSpaceStack = <<>>
          \/ /\ listLineStart
             /\ before.inside \notin {math, codeFence}
             /\ after.listSpaceStack =
                    rebuilt(before.listSpaceStack, indentation(string))

\* the second indent unit of a nested list line is consumed at a position
\* greater than 0 and ends the list-indent algorithm
C18_Witness ==
    /\ call.op = "token"
    /\ call.start > 0
    /\ call.by = "list-indent"
    /\ Len(before.listSpaceStack) = 2
    /\ after.listSpaceStack = before.listSpaceStack
    /\ after.inside = null

--------------------------------------------------------------------------
(* Leaving a code fence *)

\* C19: while inside = codeFence every token call returns a code-block tag,
\* never null, and inside leaves codeFence only in a token call at column 0 on
\* a line that is exactly three backticks followed by optional whitespace; a
\* line with text after the backticks, a line with backticks not at column 0
\* and a blank line, for which blankLine returns the code-block background
\* tag, all keep inside = codeFence
C19_FenceExit ==
    /\ (call.op = "token" /\ before.inside = codeFence)
       => /\ ~call.ret.isNull
          /\ codeblockTags \subseteq call.ret.tags
    /\ (before.inside = codeFence /\ after.inside # codeFence)
       => /\ call.op = "token"
          /\ call.start = 0
          /\ closesFence(string)
          /\ after.inside = nothing
    /\ (/\ call.op = "token"
        /\ before.inside = codeFence
        /\ string \in {<<BQ, BQ, BQ, "a">>, <<" ", BQ, BQ, BQ>>})
       => after.inside = codeFence
    /\ (call.op = "blankLine" /\ before.inside = codeFence)
       => /\ call.ret = retStyle(codeblockTags)
          /\ after.inside = codeFence

\* inside a fence, a line of three backticks that do not start at column 0 is
\* scanned as content
C19_Witness ==
    /\ call.op = "token"
    /\ before.inside = codeFence
    /\ string = <<" ", BQ, BQ, BQ>>
    /\ pos = Len(string)
    /\ after.inside = codeFence

--------------------------------------------------------------------------
(* The index of the list-indent algorithm *)

\* the last call ran the list-indent algorithm
listIndentCall == call.op = "token" /\ call.by \in {"list-indent", "list-line"}

\* state.extra when the algorithm starts: 0 after the rebuild of a list line,
\* otherwise what the call before left
indexAtEntry == IF listLineStart THEN extraNum(0) ELSE before.extra

\* the index after the call's indent unit; the 0-width first level of a
\* nested list is skipped in the same call
indexAfterUnit ==
    indexAtEntry.n
    + (IF indexAtEntry.n = 0 /\ after.listSpaceStack[1] = 0 THEN 2 ELSE 1)

\* C20: at the start of every token call that runs the list-indent algorithm,
\* extra is an integer index i with 0 <= i < Len(listSpaceStack); the index is
\* advanced by one per indent unit, and the algorithm is left, with inside and
\* extra cleared, once the index reaches the length of the stack
C20_ListIndexValid ==
    listIndentCall =>
        /\ indexAtEntry.k = "num"
        /\ indexAtEntry.n >= 0
        /\ indexAtEntry.n < Len(after.listSpaceStack)
        /\ Tag("hmd-list-indent-corrupted") \notin call.ret.tags
           => IF indexAfterUnit >= Len(after.listSpaceStack)
              THEN after.inside = null /\ after.extra = extraNull
              ELSE after.inside = listSpace
                   /\ after.extra = extraNum(indexAfterUnit)

--------------------------------------------------------------------------
(* A corrupted indent *)

\* the level whose width the call has to consume: the 0-width first level of
\* a nested list is skipped
levelAtEntry ==
    IF indexAtEntry.n = 0 /\ Len(after.listSpaceStack) > 1
       /\ after.listSpaceStack[1] = 0
    THEN 1 ELSE indexAtEntry.n

\* the line, read from position p, ends or shows a character that is neither
\* a space nor a tab before the width w is consumed
RECURSIVE runsShort(_, _, _)
runsShort(str, p, w) ==
    /\ w > 0
    /\ IF p < Len(str) /\ str[p + 1] = " " THEN runsShort(str, p + 1, w - 1)
       ELSE IF p < Len(str) /\ str[p + 1] = "\t" THEN runsShort(str, p + 1, w - 4)
       ELSE TRUE

\* the last call ran the indent loop for a level of the stack and the line
\* ran short of its width
indentRunsShort ==
    /\ call.op = "token"
    /\ call.by = "list-indent"
    /\ indexAtEntry.k = "num"
    /\ levelAtEntry < Len(after.listSpaceStack)
    /\ runsShort(string, call.start, after.listSpaceStack[levelAtEntry + 1])

corruptedTag == Tag("hmd-list-indent-corrupted")

\* C21: when the list-indent algorithm meets a character that is neither
\* space nor tab, or the end of the line, before the width of the current
\* level is consumed, the call returns a list-indent tag with the corrupted
\* marker and inside is no longer listSpace after the call; the marker is
\* returned in that case only; a call at a position greater than 0 made
\* outside listSpace, Math and CodeFence is handled by the inline content and
\* never enters listSpace, so the rest of the line is scanned as content
C21_CorruptedIndent ==
    /\ indentRunsShort
       => /\ ~call.ret.isNull
          /\ {Tag("hmd-list-indent"), corruptedTag} \subseteq call.ret.tags
          /\ after.inside = null
    /\ (call.op = "token" /\ ~call.ret.isNull /\ corruptedTag \in call.ret.tags)
       => indentRunsShort
    /\ (/\ call.op = "token"
        /\ call.start > 0
        /\ before.inside \notin {listSpace, math, codeFence})
       => /\ inlineCall
          /\ after.inside # listSpace

\* a bullet stands where the second level's indent should be: the call is
\* marked as corrupted and the rest of the line is left to the inline content
C21_Witness ==
    /\ indentRunsShort
    /\ call.start > 0
    /\ charAt(string, pos - 1) = "-"
    /\ corruptedTag \in call.ret.tags
    /\ after.inside = null
    /\ pos < Len(string)

--------------------------------------------------------------------------
(* The block mode over a blank line *)

\* C22: blankLine leaves inside and extra unchanged: a `$$` math span or a
\* code fence that is open before a blank line is still open, with the same
\* delimiter, after it, and blankLine returns null unless inside is codeFence,
\* for which it returns the code-block background tags
C22_BlankLineKeepsBlock ==
    call.op = "blankLine" =>
        /\ after.inside = before.inside
        /\ after.extra = before.extra
        /\ before.inside = math => (after.inside = math /\ after.extra = dollars)
        /\ call.ret = (IF before.inside = codeFence
                       THEN retStyle(codeblockTags) ELSE retNull)

\* a blank line inside a `$$` math span
C22_Witness ==
    /\ call.op = "blankLine"
    /\ before.inside = math
    /\ before.extra = dollars
    /\ after.inside = math
    /\ call.ret = retNull

--------------------------------------------------------------------------
(* The table counters without a table *)

\* C23: in every reachable state, table = null implies tableCol = 0 and
\* tableRow = 0; a token call changes the counters only while a table is
\* established
C23_NoTableNoCounters ==
    /\ after.table = NoTable => (after.tableCol = 0 /\ after.tableRow = 0)
    /\ (/\ call.op = "token"
        /\ \/ after.tableCol # before.tableCol
           \/ after.tableRow # before.tableRow)
       => after.table # NoTable

\* a `|` that establishes no table is consumed and the counters stay 0
C23_Witness ==
    /\ call.op = "token"
    /\ call.by = "no-table"
    /\ consumed = <<"|">>
    /\ after.table = NoTable
    /\ after.tableCol = 0
    /\ after.tableRow = 0

--------------------------------------------------------------------------
(* Only blankLine ends a blockquote, a table or a list *)

\* C24: no token call changes quoteLevel from a positive value to 0, changes
\* table from set to null, or changes listSpaceStack from non-empty to empty,
\* and neither does the host's step to the next non-blank line: once a
\* blockquote, a table or a list is open, every following non-blank line is
\* scanned with it still open until blankLine is called; a table keeps its
\* identifier
C24_OnlyBlankLineEnds ==
    call.op \in {"token", "line"} =>
        /\ before.quoteLevel > 0 => after.quoteLevel > 0
        /\ before.table # NoTable => after.table = before.table
        /\ before.listSpaceStack # <<>> => after.listSpaceStack # <<>>

\* a bullet at column 0 follows an indented bullet: the list stays open, with
\* the 0-width level alone
C24_Witness ==
    /\ call.op = "token"
    /\ call.start = 0
    /\ line > 0
    /\ before.listSpaceStack = <<1>>
    /\ after.listSpaceStack = <<0>>

--------------------------------------------------------------------------
(* The frame of a code fence *)

\* the state s with the fields a fence call may change taken from t
fenceFrame(s, t) ==
    [s EXCEPT !.inside = t.inside, !.combineTokens = t.combineTokens]

\* C25: a token call made while inside = codeFence changes no state field
\* other than inside and combineTokens, and the host's step to the next line
\* changes none: quoteLevel, nstyle (styles and link state), table, tableCol,
\* tableRow, listSpaceStack, atBeginning, prevLineIsEmpty and extra are after
\* the closing fence line what they were before the first content line,
\* unless blankLine was called in between
C25_FenceFrame ==
    /\ (call.op = "token" /\ before.inside = codeFence)
       => /\ fenceFrame(after, before) = before
          /\ after.inside \in {codeFence, nothing}
          /\ after.combineTokens = "true"
    /\ (call.op = "line" /\ before.inside = codeFence) => after = before

\* the closing line of a fence opened while an emphasis and a link URL were
\* open: both are still open after it
C25_Witness ==
    /\ call.op = "token"
    /\ call.by = "fence-end"
    /\ before.inside = codeFence
    /\ hasFlag(before.nstyle, EM)
    /\ linkOf(before.nstyle) = LINK_URL
    /\ after.nstyle = before.nstyle
    /\ after.inside = nothing

==========================================================================
